---------------------------- MODULE Spec2Model ----------------------------
(***************************************************************************)
(* A model of the Donizo material scraper: the category crawl              *)
(* (MaterialScraper._scrape_leroymerlin_category), the coordinator that    *)
(* runs the crawls under a semaphore (scrape_supplier / scrape_all), the   *)
(* snapshot writer (save_data) and the snapshot loader of the API server   *)
(* (DonizoAPI._load_data, refresh_data).                                   *)
(***************************************************************************)
EXTENDS Integers, Sequences, FiniteSets, TLC

VARIABLES
    config,          \* self.config['scraping'] and the number of configured categories
    site,            \* what the remote site can serve: page width and container shapes
    semaphore,       \* value of asyncio.Semaphore in scrape_supplier
    run,             \* position of scrape_supplier / scrape_all
    pc,              \* per category crawl: position in bounded_task / the crawl loop
    page,            \* per crawl: local variable page
    products,        \* per crawl: local list products
    content,         \* per crawl: outcome of the last _fetch_page (-1 = None)
    attempts,        \* per crawl: length of product_containers[:max_products - len(products)]
    pos,             \* per crawl: containers of the current page already iterated
    tried,           \* per crawl: loop variable container, the one iterated last
    page_products,   \* per crawl: local variable page_products
    fetched,         \* per crawl: history of the page numbers requested
    responses,       \* per crawl: history of the fetch outcomes
    stop,            \* per crawl: which exit of the loop was taken
    all_products,    \* scrape_supplier's flattened result, then self.products
    clock,           \* datetime.now()
    file,            \* the snapshot file at data/materials.json
    saving,          \* position of save_data
    api,             \* state of the DonizoAPI process
    data,            \* DonizoAPI.self.data
    response,        \* outcome of the last _load_data: what it read, when, and how it ended
    request,         \* the last request handled by a route of the API, with its parameters
    reply,           \* what the route returned
    call,            \* the helper of the scraper being evaluated, with its argument
    ret              \* what the helper returned

crawlVars == <<pc, page, products, content, attempts, pos, tried, page_products,
               fetched, responses, stop>>
runVars == <<config, site, semaphore, run, all_products>>
queryVars == <<request, reply>>
helperVars == <<call, ret>>
catalogVars == <<clock, file, saving, api, data, response, queryVars, helperVars>>
vars == <<runVars, crawlVars, catalogVars>>

-----------------------------------------------------------------------------
(* Bounds of the model *)

MaxProducts == 2      \* longest self.products handed to save_data
MaxClock == 2         \* ticks of the wall clock
MaxCats == 2          \* configured categories in a coordinator run
MaxConc == 2          \* largest max_concurrent_requests
CoordCap == 1         \* largest max_products_per_category in a coordinator run
CoordWidth == 1       \* most containers on a page in a coordinator run
MaxCap == 3           \* largest small max_products_per_category of a single crawl
MaxContainers == 2    \* most containers on a page of a single crawl
BigCap == 12          \* a cap larger than the page ceiling can ever fill
DeepWidth == 2        \* most containers on a page under BigCap
MaxCatalog == 2       \* longest catalog served by the API
MaxPage == 2          \* largest page number requested
MaxPerPage == 2       \* largest per_page requested
MaxRecords == 3       \* longest catalog that the aggregation routes report on
MaxDigits == 2        \* most digits before, and after, the separator of a price text
MaxWords == 2         \* most words of a product name given to _extract_unit
RunCap == 2           \* max_products_per_category of a run that is saved

(* Program constants *)

PageCeiling == 10     \* if page > 10: break

-----------------------------------------------------------------------------
(* Optional[T]: None is the empty sequence, a value v is <<v>> *)

None == <<>>

Some(v) == <<v>>

Min(a, b) == IF a < b THEN a ELSE b

(* datetime.now().isoformat() *)
IsoFormat(t) == "T" \o ToString(t)

Now == IsoFormat(clock)

-----------------------------------------------------------------------------
(* Strings: str.lower() and the substring test `needle in hay` *)

UpperCase == "ABCDEFGHIJKLMNOPQRSTUVWXYZÉÈÂÃ"

LowerCase == "abcdefghijklmnopqrstuvwxyzéèâã"

(* the lower-case letter of every upper-case letter *)
ToLower ==
    LET at(i) == SubSeq(UpperCase, i, i)
        index(ch) == CHOOSE i \in 1 .. Len(UpperCase) : at(i) = ch
    IN  [ch \in {at(i) : i \in 1 .. Len(UpperCase)} |->
            SubSeq(LowerCase, index(ch), index(ch))]

LowerChar(ch) == IF ch \in DOMAIN ToLower THEN ToLower[ch] ELSE ch

RECURSIVE Lower(_)
Lower(s) == IF s = "" THEN "" ELSE LowerChar(SubSeq(s, 1, 1)) \o Lower(Tail(s))

In(needle, hay) ==
    \E i \in 0 .. Len(hay) - Len(needle) : SubSeq(hay, i + 1, i + Len(needle)) = needle

-----------------------------------------------------------------------------
(* _fetch_page: what the exchange started by self.session.get(url) comes   *)
(* to, and what _fetch_page returns for it                                 *)

HttpResponse(status, body) ==
    [kind |-> "response", status |-> status, body |-> body, error |-> ""]

(* the sleep, the request or response.text() raises *)
HttpError(error) == [kind |-> "error", status |-> 0, body |-> "", error |-> error]

(* if response.status == 200: return await response.text(); else: return  *)
(* None; except Exception: return None                                     *)
FetchPage(exchange) ==
    IF exchange.kind = "response" /\ exchange.status = 200
    THEN Some(exchange.body)
    ELSE None

-----------------------------------------------------------------------------
(* _parse_price.  A float is kept as the decimal number it equals: a whole *)
(* number of units of 10^-decimals, without trailing zeros behind the      *)
(* point.                                                                  *)

RECURSIVE Float(_, _)
Float(units, decimals) ==
    IF decimals > 0 /\ units % 10 = 0
    THEN Float(units \div 10, decimals - 1)
    ELSE [units |-> units, decimals |-> decimals]

DecimalDigits == "0123456789"

(* the value of every decimal digit *)
DigitOf ==
    LET at(i) == SubSeq(DecimalDigits, i, i)
    IN  [ch \in {at(i) : i \in 1 .. 10} |-> (CHOOSE i \in 1 .. 10 : at(i) = ch) - 1]

(* ReplaceCommas that leaves the text as it is *)
ReplaceCommas_Keeps(s) == s

RECURSIVE ReplaceCommas(_)
(* price_text.replace(',', '.') *)
ReplaceCommas(s) ==
    IF s = "" THEN ""
    ELSE (IF SubSeq(s, 1, 1) = "," THEN "." ELSE SubSeq(s, 1, 1)) \o ReplaceCommas(Tail(s))

RECURSIVE KeepDigitsAndSeparators(_)
(* re.sub(r'[^\d,.]', '', s) *)
KeepDigitsAndSeparators(s) ==
    IF s = "" THEN ""
    ELSE (IF SubSeq(s, 1, 1) \in DOMAIN DigitOf \cup {",", "."}
          THEN SubSeq(s, 1, 1) ELSE "")
         \o KeepDigitsAndSeparators(Tail(s))

RECURSIVE NumberOf(_)
(* the number that a string of digits and one optional point writes, the   *)
(* point left out                                                          *)
NumberOf(s) ==
    IF s = "" THEN 0
    ELSE LET ch == SubSeq(s, Len(s), Len(s))
             front == SubSeq(s, 1, Len(s) - 1)
         IN  IF ch = "." THEN NumberOf(front) ELSE NumberOf(front) * 10 + DigitOf[ch]

Positions(s, ch) == {i \in 1 .. Len(s) : SubSeq(s, i, i) = ch}

(* float(s) accepts s: digits with at most one point and at least one      *)
(* digit; anything else raises ValueError                                  *)
IsFloatLiteral(s) ==
    /\ \A i \in 1 .. Len(s) : SubSeq(s, i, i) \in DOMAIN DigitOf \cup {"."}
    /\ Cardinality(Positions(s, ".")) <= 1
    /\ \E i \in 1 .. Len(s) : SubSeq(s, i, i) \in DOMAIN DigitOf

(* float(s) of such a literal *)
FloatOf(s) ==
    LET point == Positions(s, ".")
        decimals == IF point = {} THEN 0 ELSE Len(s) - (CHOOSE i \in point : TRUE)
    IN  Float(NumberOf(s), decimals)

(* _parse_price: (0.0, "EUR") for an empty text and when float raises      *)
(* ValueError, else (float(price_clean), "EUR")                            *)
ParsePrice(price_text) ==
    IF price_text = "" THEN [price |-> Float(0, 0), currency |-> "EUR"]
    ELSE LET price_clean == KeepDigitsAndSeparators(ReplaceCommas(price_text))
         IN  IF IsFloatLiteral(price_clean)
             THEN [price |-> FloatOf(price_clean), currency |-> "EUR"]
             ELSE [price |-> Float(0, 0), currency |-> "EUR"]

-----------------------------------------------------------------------------
(* _extract_unit *)

(* units, the tokens in the order and the spelling of the source file *)
Units ==
    <<"mÂ²", "m2", "cmÂ²", "cm2", "ml", "cl", "l", "kg", "g", "piÃ¨ce", "lot", "paquet">>

(* _extract_unit: None for an empty text, else the first unit of the list  *)
(* whose lower-case form is a substring of the lower-case text, None when  *)
(* there is no such unit                                                   *)
ExtractUnit(text) ==
    IF text = "" THEN None
    ELSE LET text_lower == Lower(text)
             found == SelectSeq(Units, LAMBDA unit : In(Lower(unit), text_lower))
         IN  IF found = <<>> THEN None ELSE Some(Head(found))

-----------------------------------------------------------------------------
(* Containers: what soup.find_all returns for one product listing.  The    *)
(* fields are the answers the container gives to the queries of            *)
(* _parse_leroymerlin_product.                                             *)

Container(name_elem, text, title, url_elem, raises) ==
    [name_elem |-> name_elem, text |-> text, title |-> title,
     url_elem |-> url_elem, raises |-> raises]

GoodContainer == Container(TRUE, "Carrelage", "", TRUE, FALSE)

TitleContainer == Container(TRUE, "", "Lavabo", TRUE, FALSE)

NoNameContainer == Container(FALSE, "", "", TRUE, FALSE)

NoLinkContainer == Container(TRUE, "Carrelage", "", FALSE, FALSE)

RaisingContainer == Container(TRUE, "Carrelage", "", TRUE, TRUE)

(* a name element without text and without title, such as a link around   *)
(* an image                                                                *)
BlankNameContainer == Container(TRUE, "", "", TRUE, FALSE)

AllContainers ==
    {GoodContainer, TitleContainer, BlankNameContainer, NoNameContainer,
     NoLinkContainer, RaisingContainer}

(* Product(...) with the defaults of the dataclass; scraped_at is set by   *)
(* __post_init__.                                                          *)
Product(name, category, price, product_url, brand, in_stock) ==
    [name |-> name, category |-> category, price |-> price, currency |-> "EUR",
     product_url |-> product_url, brand |-> brand, unit |-> None,
     pack_size |-> None, image_url |-> None, in_stock |-> in_stock,
     supplier |-> "Leroy Merlin", scraped_at |-> Now]

(* _parse_leroymerlin_product: None when the name element or the link is   *)
(* missing or anything raises, else the product.  href is the link of the  *)
(* container.                                                              *)
ParseProduct(container, category, href) ==
    IF container.raises THEN None
    ELSE IF ~container.name_elem THEN None
    ELSE IF ~container.url_elem THEN None
    ELSE LET name == IF container.text # "" THEN container.text ELSE container.title
         IN  Some([Product(name, category, 0, href, None, TRUE)
                      EXCEPT !.unit = ExtractUnit(name)])

(* the key of the c-th configured category *)
CategoryKey(c) == "category-" \o ToString(c)

(* the link the site gives the i-th container of page p of a category *)
Href(c, p, i) == "/" \o CategoryKey(c) \o "?page=" \o ToString(p) \o "#" \o ToString(i)

-----------------------------------------------------------------------------
(* The category crawl: _scrape_leroymerlin_category under bounded_task *)

Cats == 1 .. config.categories

max_products == config.max_products_per_category

(* Acquire without the permit test: every task enters at once *)
Acquire_NoPermitTest(c) ==
    /\ run = "gather"
    /\ pc[c] = "queued"
    /\ semaphore' = semaphore - 1
    /\ pc' = [pc EXCEPT ![c] = "loop"]
    /\ UNCHANGED <<config, site, run, all_products, page, products, content,
                   attempts, pos, page_products, fetched, responses, stop,
                   tried, catalogVars>>

(* async with semaphore: asyncio wakes waiters first in, first out, and    *)
(* gather starts the tasks in list order.                                  *)
Acquire(c) ==
    /\ run = "gather"
    /\ pc[c] = "queued"
    /\ semaphore > 0
    /\ \A d \in Cats : d < c => pc[d] # "queued"
    /\ semaphore' = semaphore - 1
    /\ pc' = [pc EXCEPT ![c] = "loop"]
    /\ UNCHANGED <<config, site, run, all_products, page, products, content,
                   attempts, pos, page_products, fetched, responses, stop,
                   tried, catalogVars>>

(* Return that keeps the permit *)
Return_NoRelease(c, why) ==
    /\ pc' = [pc EXCEPT ![c] = "done"]
    /\ stop' = [stop EXCEPT ![c] = why]
    /\ semaphore' = semaphore

(* return products; leaving async with releases the permit *)
Return(c, why) ==
    /\ pc' = [pc EXCEPT ![c] = "done"]
    /\ stop' = [stop EXCEPT ![c] = why]
    /\ semaphore' = semaphore + 1

(* while len(products) < max_products: content = await self._fetch_page(page_url) *)
LoopTest(c) ==
    /\ pc[c] = "loop"
    /\ IF Len(products[c]) < max_products
       THEN /\ pc' = [pc EXCEPT ![c] = "fetching"]
            /\ fetched' = [fetched EXCEPT ![c] = Append(@, page[c])]
            /\ UNCHANGED <<stop, semaphore>>
       ELSE /\ Return(c, "cap")
            /\ UNCHANGED fetched
    /\ UNCHANGED <<config, site, run, all_products, page, products, content,
                   attempts, pos, page_products, responses, tried, catalogVars>>

(* FetchFails that goes on with the next page instead of breaking *)
FetchFails_NextPage(c) ==
    /\ pc[c] = "fetching"
    /\ content' = [content EXCEPT ![c] = -1]
    /\ responses' = [responses EXCEPT ![c] = Append(@, -1)]
    /\ page' = [page EXCEPT ![c] = @ + 1]
    /\ IF page[c] + 1 > PageCeiling
       THEN Return(c, "ceiling")
       ELSE /\ pc' = [pc EXCEPT ![c] = "loop"]
            /\ UNCHANGED <<stop, semaphore>>
    /\ UNCHANGED <<config, site, run, all_products, products, attempts,
                   pos, page_products, fetched, tried, catalogVars>>

(* _fetch_page returns None: non-200 status, an exception, or an empty     *)
(* body (if not content: break)                                            *)
FetchFails(c) ==
    /\ pc[c] = "fetching"
    /\ content' = [content EXCEPT ![c] = -1]
    /\ responses' = [responses EXCEPT ![c] = Append(@, -1)]
    /\ Return(c, "fetch_failure")
    /\ UNCHANGED <<config, site, run, all_products, page, products, attempts,
                   pos, page_products, fetched, tried, catalogVars>>

(* FetchReturns that goes on with the next page when a page is empty *)
FetchReturns_SkipsEmptyPage(c) ==
    /\ pc[c] = "fetching"
    /\ \E n \in 0 .. site.width :
        /\ content' = [content EXCEPT ![c] = n]
        /\ responses' = [responses EXCEPT ![c] = Append(@, n)]
        /\ IF n = 0
           THEN /\ page' = [page EXCEPT ![c] = @ + 1]
                /\ IF page[c] + 1 > PageCeiling
                   THEN Return(c, "ceiling")
                   ELSE /\ pc' = [pc EXCEPT ![c] = "loop"]
                        /\ UNCHANGED <<stop, semaphore>>
                /\ UNCHANGED <<attempts, pos, page_products>>
           ELSE /\ pc' = [pc EXCEPT ![c] = "extracting"]
                /\ attempts' = [attempts EXCEPT
                                  ![c] = Min(n, max_products - Len(products[c]))]
                /\ pos' = [pos EXCEPT ![c] = 0]
                /\ page_products' = [page_products EXCEPT ![c] = 0]
                /\ UNCHANGED <<stop, semaphore, page>>
    /\ UNCHANGED <<config, site, run, all_products, products, fetched,
                   tried, catalogVars>>

(* FetchReturns that iterates over every container of the page *)
FetchReturns_NoSlice(c) ==
    /\ pc[c] = "fetching"
    /\ \E n \in 0 .. site.width :
        /\ content' = [content EXCEPT ![c] = n]
        /\ responses' = [responses EXCEPT ![c] = Append(@, n)]
        /\ IF n = 0
           THEN /\ Return(c, "no_containers")
                /\ UNCHANGED <<attempts, pos, page_products>>
           ELSE /\ pc' = [pc EXCEPT ![c] = "extracting"]
                /\ attempts' = [attempts EXCEPT ![c] = n]
                /\ pos' = [pos EXCEPT ![c] = 0]
                /\ page_products' = [page_products EXCEPT ![c] = 0]
                /\ UNCHANGED <<stop, semaphore>>
    /\ UNCHANGED <<config, site, run, all_products, page, products, fetched,
                   tried, catalogVars>>

(* _fetch_page returns a body in which find_all finds n containers; with   *)
(* none: break, else the loop over product_containers[:max_products -      *)
(* len(products)] starts with page_products = 0                            *)
FetchReturns(c) ==
    /\ pc[c] = "fetching"
    /\ \E n \in 0 .. site.width :
        /\ content' = [content EXCEPT ![c] = n]
        /\ responses' = [responses EXCEPT ![c] = Append(@, n)]
        /\ IF n = 0
           THEN /\ Return(c, "no_containers")
                /\ UNCHANGED <<attempts, pos, page_products>>
           ELSE /\ pc' = [pc EXCEPT ![c] = "extracting"]
                /\ attempts' = [attempts EXCEPT
                                  ![c] = Min(n, max_products - Len(products[c]))]
                /\ pos' = [pos EXCEPT ![c] = 0]
                /\ page_products' = [page_products EXCEPT ![c] = 0]
                /\ UNCHANGED <<stop, semaphore>>
    /\ UNCHANGED <<config, site, run, all_products, page, products, fetched,
                   tried, catalogVars>>

(* Extract that leaves the for loop at the first container without a      *)
(* product                                                                 *)
Extract_BreaksOnMiss(c) ==
    /\ pc[c] = "extracting"
    /\ pos[c] < attempts[c]
    /\ \E container \in site.containers :
        LET product == ParseProduct(container, CategoryKey(c), Href(c, page[c], pos[c] + 1))
        IN  /\ tried' = [tried EXCEPT ![c] = Some(container)]
            /\ IF product # None
               THEN /\ pos' = [pos EXCEPT ![c] = @ + 1]
                    /\ products' = [products EXCEPT ![c] = Append(@, product[1])]
                    /\ page_products' = [page_products EXCEPT ![c] = @ + 1]
               ELSE /\ pos' = [pos EXCEPT ![c] = attempts[c]]
                    /\ UNCHANGED <<products, page_products>>
    /\ UNCHANGED <<config, site, semaphore, run, all_products, pc, page, content,
                   attempts, fetched, responses, stop, catalogVars>>

(* one iteration of the for loop: product = await                          *)
(* self._parse_leroymerlin_product(container, category, base_url)          *)
Extract(c) ==
    /\ pc[c] = "extracting"
    /\ pos[c] < attempts[c]
    /\ \E container \in site.containers :
        LET product == ParseProduct(container, CategoryKey(c), Href(c, page[c], pos[c] + 1))
        IN  /\ pos' = [pos EXCEPT ![c] = @ + 1]
            /\ tried' = [tried EXCEPT ![c] = Some(container)]
            /\ IF product # None
               THEN /\ products' = [products EXCEPT ![c] = Append(@, product[1])]
                    /\ page_products' = [page_products EXCEPT ![c] = @ + 1]
               ELSE UNCHANGED <<products, page_products>>
    /\ UNCHANGED <<config, site, semaphore, run, all_products, pc, page, content,
                   attempts, fetched, responses, stop, catalogVars>>

(* EndPage that forgets page += 1 *)
EndPage_SamePage(c) ==
    /\ pc[c] = "extracting"
    /\ pos[c] = attempts[c]
    /\ IF page_products[c] = 0
       THEN Return(c, "no_records")
       ELSE /\ pc' = [pc EXCEPT ![c] = "loop"]
            /\ UNCHANGED <<stop, semaphore>>
    /\ UNCHANGED <<config, site, run, all_products, page, products, content,
                   attempts, pos, page_products, fetched, responses, tried, catalogVars>>

(* EndPage without the safety break *)
EndPage_NoCeiling(c) ==
    /\ pc[c] = "extracting"
    /\ pos[c] = attempts[c]
    /\ IF page_products[c] = 0
       THEN /\ Return(c, "no_records")
            /\ UNCHANGED page
       ELSE /\ page' = [page EXCEPT ![c] = @ + 1]
            /\ pc' = [pc EXCEPT ![c] = "loop"]
            /\ UNCHANGED <<stop, semaphore>>
    /\ UNCHANGED <<config, site, run, all_products, products, content, attempts,
                   pos, page_products, fetched, responses, tried, catalogVars>>

(* EndPage without the test of page_products *)
EndPage_NoYieldTest(c) ==
    /\ pc[c] = "extracting"
    /\ pos[c] = attempts[c]
    /\ page' = [page EXCEPT ![c] = @ + 1]
    /\ IF page[c] + 1 > PageCeiling
       THEN Return(c, "ceiling")
       ELSE /\ pc' = [pc EXCEPT ![c] = "loop"]
            /\ UNCHANGED <<stop, semaphore>>
    /\ UNCHANGED <<config, site, run, all_products, products, content, attempts,
                   pos, page_products, fetched, responses, tried, catalogVars>>

(* after the for loop: if page_products == 0: break; page += 1;            *)
(* if page > 10: break                                                     *)
EndPage(c) ==
    /\ pc[c] = "extracting"
    /\ pos[c] = attempts[c]
    /\ IF page_products[c] = 0
       THEN /\ Return(c, "no_records")
            /\ UNCHANGED page
       ELSE /\ page' = [page EXCEPT ![c] = @ + 1]
            /\ IF page[c] + 1 > PageCeiling
               THEN Return(c, "ceiling")
               ELSE /\ pc' = [pc EXCEPT ![c] = "loop"]
                    /\ UNCHANGED <<stop, semaphore>>
    /\ UNCHANGED <<config, site, run, all_products, products, content, attempts,
                   pos, page_products, fetched, responses, tried, catalogVars>>

-----------------------------------------------------------------------------
(* The coordinator: scrape_supplier under scrape_all *)

RECURSIVE Flatten(_, _)
(* for product_list in results: all_products.extend(product_list) *)
Flatten(results, n) ==
    IF n = 0 THEN <<>> ELSE Flatten(results, n - 1) \o results[n]

(* Gather that returns as soon as one task has returned *)
Gather_FirstCompleted ==
    /\ run = "gather"
    /\ \E c \in Cats : pc[c] = "done"
    /\ all_products' = Flatten(products, config.categories)
    /\ run' = "done"
    /\ UNCHANGED <<config, site, semaphore, crawlVars, catalogVars>>

(* results = await asyncio.gather(...) returns once every task has         *)
(* returned; the lists are flattened in task order and scrape_all stores   *)
(* them in self.products                                                   *)
Gather ==
    /\ run = "gather"
    /\ \A c \in Cats : pc[c] = "done"
    /\ all_products' = Flatten(products, config.categories)
    /\ run' = "done"
    /\ UNCHANGED <<config, site, semaphore, crawlVars, catalogVars>>

-----------------------------------------------------------------------------
(* Python values and JSON texts.  A value carries its type, so that what   *)
(* json.dump writes and json.load reads back can differ from what was      *)
(* saved.                                                                  *)

Py(t, s, n, b) == [t |-> t, s |-> s, n |-> n, b |-> b]

PyNone == Py("NoneType", "", 0, FALSE)

PyBool(b) == Py("bool", "", 0, b)

PyInt(n) == Py("int", "", n, FALSE)

PyFloat(x) == Py("float", "", x, FALSE)

PyStr(x) == Py("str", x, 0, FALSE)

PyOptionalStr(o) == IF o = None THEN PyNone ELSE PyStr(o[1])

(* dataclasses.asdict(product) *)
AsDict(p) ==
    [name |-> PyStr(p.name), category |-> PyStr(p.category),
     price |-> PyFloat(p.price), currency |-> PyStr(p.currency),
     product_url |-> PyStr(p.product_url), brand |-> PyOptionalStr(p.brand),
     unit |-> PyOptionalStr(p.unit), pack_size |-> PyOptionalStr(p.pack_size),
     image_url |-> PyOptionalStr(p.image_url), in_stock |-> PyBool(p.in_stock),
     supplier |-> PyStr(p.supplier), scraped_at |-> PyStr(p.scraped_at)]

(* [asdict(product) for product in self.products] *)
AsDictList(ps) == [i \in DOMAIN ps |-> AsDict(ps[i])]

(* a JSON scalar as written in the file: its kind and its text or number *)
Json(t, s, n) == [t |-> t, s |-> s, n |-> n]

(* JsonDumpValue that writes None as the string "None" (default=str) *)
JsonDumpValue_NoneAsText(x) ==
    CASE x.t = "NoneType" -> Json("string", "None", 0)
      [] x.t = "bool" -> Json(IF x.b THEN "true" ELSE "false", "", 0)
      [] x.t = "int" -> Json("integer", "", x.n)
      [] x.t = "float" -> Json("decimal", "", x.n)
      [] x.t = "str" -> Json("string", x.s, 0)

(* json.dump of a scalar: null, true / false, a number with or without a   *)
(* fraction part, a string (ensure_ascii=False keeps the characters)       *)
JsonDumpValue(x) ==
    CASE x.t = "NoneType" -> Json("null", "", 0)
      [] x.t = "bool" -> Json(IF x.b THEN "true" ELSE "false", "", 0)
      [] x.t = "int" -> Json("integer", "", x.n)
      [] x.t = "float" -> Json("decimal", "", x.n)
      [] x.t = "str" -> Json("string", x.s, 0)

(* json.load of a scalar *)
JsonLoadValue(j) ==
    CASE j.t = "null" -> PyNone
      [] j.t = "true" -> PyBool(TRUE)
      [] j.t = "false" -> PyBool(FALSE)
      [] j.t = "integer" -> PyInt(j.n)
      [] j.t = "decimal" -> PyFloat(j.n)
      [] j.t = "string" -> PyStr(j.s)

JsonDumpObject(d) == [k \in DOMAIN d |-> JsonDumpValue(d[k])]

JsonLoadObject(o) == [k \in DOMAIN o |-> JsonLoadValue(o[k])]

(* json.dump(data, f): the document of save_data, or any dict whose        *)
(* "products" is a list of flat dicts                                      *)
JsonDump(d) ==
    [k \in DOMAIN d |->
        IF k = "products"
        THEN [i \in DOMAIN d[k] |-> JsonDumpObject(d[k][i])]
        ELSE JsonDumpValue(d[k])]

(* json.load(f) of such a document *)
JsonLoad(doc) ==
    [k \in DOMAIN doc |->
        IF k = "products"
        THEN [i \in DOMAIN doc[k] |-> JsonLoadObject(doc[k][i])]
        ELSE JsonLoadValue(doc[k])]

-----------------------------------------------------------------------------
(* The snapshot file *)

MissingFile == [kind |-> "missing"]

(* text that json.load rejects with JSONDecodeError; an empty or a partly  *)
(* written file is such a text                                             *)
NotJsonFile == [kind |-> "not_json"]

(* bytes that are not UTF-8: reading raises UnicodeDecodeError *)
NotUtf8File == [kind |-> "not_utf8"]

(* well-formed JSON whose top level is no object, such as [] *)
JsonArrayFile == [kind |-> "json_array"]

JsonObjectFile(doc) == [kind |-> "json_object", doc |-> doc]

(* data = {'scraped_at': ..., 'total_products': ..., 'products': [...]} *)
Document(ps) ==
    [scraped_at |-> PyStr(Now), total_products |-> PyInt(Len(ps)),
     products |-> AsDictList(ps)]

(* {"products": [], "total_products": 0, "scraped_at": datetime.now().isoformat()} *)
EmptyCatalog ==
    [products |-> <<>>, total_products |-> PyInt(0), scraped_at |-> PyStr(Now)]

Raised(what) == [raised |-> TRUE, error |-> what]

Returned(value) == [raised |-> FALSE, value |-> value]

(* DonizoAPI._load_data: FileNotFoundError and json.JSONDecodeError are    *)
(* caught; data.get on a list and a decoding error of the bytes are not    *)
LoadData(f) ==
    CASE f.kind = "missing" -> Returned(EmptyCatalog)
      [] f.kind = "not_json" -> Returned(EmptyCatalog)
      [] f.kind = "not_utf8" -> Raised("UnicodeDecodeError")
      [] f.kind = "json_array" -> Raised("AttributeError")
      [] f.kind = "json_object" -> Returned(JsonLoad(f.doc))

NoResponse == [status |-> "none"]

ResponseOf(result) ==
    [status |-> IF result.raised THEN "raised" ELSE "returned",
     read |-> file.kind, at |-> Now, saving |-> saving.at]

(* SaveOpen that does not wait for scrape_all to return *)
SaveOpen_BeforeJoin ==
    /\ saving.at = "idle"
    /\ saving' = [at |-> "writing", data |-> Document(all_products)]
    /\ file' = NotJsonFile
    /\ UNCHANGED <<runVars, crawlVars, helperVars, clock, api, data, response, queryVars>>

(* save_data up to open(filepath, 'w'): the document is built, the file is *)
(* created or truncated                                                    *)
SaveOpen ==
    /\ run = "done"
    /\ saving.at = "idle"
    /\ saving' = [at |-> "writing", data |-> Document(all_products)]
    /\ file' = NotJsonFile
    /\ UNCHANGED <<runVars, crawlVars, helperVars, clock, api, data, response, queryVars>>

(* json.dump(data, f, ...) and the close of the file *)
SaveWrite ==
    /\ saving.at = "writing"
    /\ file' = JsonObjectFile(JsonDump(saving.data))
    /\ saving' = [at |-> "saved"]
    /\ UNCHANGED <<runVars, crawlVars, helperVars, clock, api, data, response, queryVars>>

(* DonizoAPI.__init__: self.data = self._load_data() *)
ApiStart ==
    /\ api = "down"
    /\ LET result == LoadData(file)
       IN  /\ response' = ResponseOf(result)
           /\ IF result.raised
              THEN api' = "crashed" /\ UNCHANGED data
              ELSE api' = "up" /\ data' = result.value
    /\ UNCHANGED <<runVars, crawlVars, helperVars, clock, file, saving, queryVars>>

(* POST /refresh: self.data = self._load_data() *)
RefreshData ==
    /\ api = "up"
    /\ LET result == LoadData(file)
       IN  /\ response' = ResponseOf(result)
           /\ IF result.raised
              THEN UNCHANGED data
              ELSE data' = result.value
    /\ UNCHANGED <<runVars, crawlVars, helperVars, clock, file, saving, api, queryVars>>

(* time passes *)
Tick ==
    /\ clock < MaxClock
    /\ clock' = clock + 1
    /\ UNCHANGED <<runVars, crawlVars, helperVars, file, saving, api, data, response, queryVars>>

-----------------------------------------------------------------------------
(* The routes of the API server over self.data *)

(* `if category:` and the like: a parameter that is given and not empty *)
Truthy(o) == o # None /\ o[1] # ""

(* self.data.get("products", []) *)
DataProducts == IF "products" \in DOMAIN data THEN data.products ELSE <<>>

(* (p.get("brand") or "") *)
BrandOrEmpty(p) == IF p.brand.t = "str" THEN p.brand.s ELSE ""

(* if category: products = [p for p in products if                        *)
(* p.get("category", "").lower() == category.lower()]                      *)
ByCategory(ps, q) ==
    IF Truthy(q.category)
    THEN SelectSeq(ps, LAMBDA p : Lower(p.category.s) = Lower(q.category[1]))
    ELSE ps

(* if supplier: ... if supplier.lower() in p.get("supplier", "").lower() *)
BySupplier(ps, q) ==
    IF Truthy(q.supplier)
    THEN SelectSeq(ps, LAMBDA p : In(Lower(q.supplier[1]), Lower(p.supplier.s)))
    ELSE ps

(* if min_price is not None: ... if p.get("price", 0) >= min_price *)
ByMinPrice(ps, q) ==
    IF q.min_price # None
    THEN SelectSeq(ps, LAMBDA p : p.price.n >= q.min_price[1])
    ELSE ps

(* ByMaxPrice with the bound excluded *)
ByMaxPrice_Exclusive(ps, q) ==
    IF q.max_price # None
    THEN SelectSeq(ps, LAMBDA p : p.price.n < q.max_price[1])
    ELSE ps

(* if max_price is not None: ... if p.get("price", 0) <= max_price *)
ByMaxPrice(ps, q) ==
    IF q.max_price # None
    THEN SelectSeq(ps, LAMBDA p : p.price.n <= q.max_price[1])
    ELSE ps

(* if brand: ... if brand.lower() in (p.get("brand") or "").lower() *)
ByBrand(ps, q) ==
    IF Truthy(q.brand)
    THEN SelectSeq(ps, LAMBDA p : In(Lower(q.brand[1]), Lower(BrandOrEmpty(p))))
    ELSE ps

(* if in_stock is not None: ... if p.get("in_stock", True) == in_stock *)
ByInStock(ps, q) ==
    IF q.in_stock # None
    THEN SelectSeq(ps, LAMBDA p : p.in_stock.b = q.in_stock[1])
    ELSE ps

(* if search: ... if search_lower in p.get("name", "").lower() *)
BySearch(ps, q) ==
    IF Truthy(q.search)
    THEN SelectSeq(ps, LAMBDA p : In(Lower(q.search[1]), Lower(p.name.s)))
    ELSE ps

(* get_materials, # Apply filters: one list comprehension after the other *)
FilterProducts(ps, q) ==
    BySearch(ByInStock(ByBrand(ByMaxPrice(ByMinPrice(BySupplier(ByCategory(ps, q), q),
                                                     q), q), q), q), q)

(* FiltersApplied that tests every parameter for truthiness: a price of 0 *)
(* and in_stock = False are not echoed                                     *)
FiltersApplied_Truthy(q) ==
    LET texts == {k \in {"category", "supplier", "brand", "search"} : Truthy(q[k])}
        prices == {k \in {"min_price", "max_price"} : q[k] # None /\ q[k][1] # 0}
        flags == {k \in {"in_stock"} : q[k] # None /\ q[k][1]}
    IN  [k \in texts \cup prices \cup flags |->
            IF k \in texts THEN PyStr(q[k][1])
            ELSE IF k \in prices THEN PyFloat(q[k][1])
            ELSE PyBool(q[k][1])]

(* filters_applied: the parameters whose filter ran, with their values *)
FiltersApplied(q) ==
    LET texts == {k \in {"category", "supplier", "brand", "search"} : Truthy(q[k])}
        prices == {k \in {"min_price", "max_price"} : q[k] # None}
        flags == {k \in {"in_stock"} : q[k] # None}
    IN  [k \in texts \cup prices \cup flags |->
            IF k \in texts THEN PyStr(q[k][1])
            ELSE IF k \in prices THEN PyFloat(q[k][1])
            ELSE PyBool(q[k][1])]

(* s[start:end] of a list, 0 <= start <= end *)
Slice(s, start, end) == SubSeq(s, start + 1, Min(end, Len(s)))

(* total_pages = (total + per_page - 1) // per_page *)
TotalPages(total, per_page) == (total + per_page - 1) \div per_page

(* ProductResponse built from the dict p: its fields, price as a float *)
ProductResponse(p) == [p EXCEPT !.price = PyFloat(@.n)]

(* MaterialsResponse that takes the page number as 0-based *)
MaterialsResponse_ZeroBasedPage(ps, q) ==
    LET filtered == FilterProducts(ps, q)
        start == q.page * q.per_page
        paginated_products == Slice(filtered, start, start + q.per_page)
    IN  [total |-> Len(filtered),
         page |-> q.page,
         per_page |-> q.per_page,
         total_pages |-> TotalPages(Len(filtered), q.per_page),
         products |-> [i \in DOMAIN paginated_products |->
                          ProductResponse(paginated_products[i])],
         filters_applied |-> FiltersApplied(q)]

(* get_materials, # Pagination and the MaterialsResponse *)
MaterialsResponse(ps, q) ==
    LET filtered == FilterProducts(ps, q)
        start == (q.page - 1) * q.per_page
        paginated_products == Slice(filtered, start, start + q.per_page)
    IN  [total |-> Len(filtered),
         page |-> q.page,
         per_page |-> q.per_page,
         total_pages |-> TotalPages(Len(filtered), q.per_page),
         products |-> [i \in DOMAIN paginated_products |->
                          ProductResponse(paginated_products[i])],
         filters_applied |-> FiltersApplied(q)]

Request(route, query) == [route |-> route, query |-> query]

(* GET /materials with validated parameters: page >= 1, 1 <= per_page <=   *)
(* 100, prices >= 0                                                        *)
Queries ==
    [page : 1 .. MaxPage,
     per_page : 1 .. MaxPerPage,
     category : {None, Some(""), Some("CARRELAGE"), Some("plomberie")},
     supplier : {None, Some("leroy")},
     min_price : {None, Some(0), Some(1000)},
     max_price : {None, Some(1000)},
     brand : {None, Some("ideal")},
     in_stock : {None, Some(TRUE), Some(FALSE)},
     search : {None, Some("LAV")}]

(* the event loop runs one handler at a time, and a handler without await  *)
(* runs to its return                                                      *)
GetMaterials ==
    /\ api = "up"
    /\ request = None
    /\ \E q \in Queries :
        /\ request' = Request("/materials", q)
        /\ reply' = MaterialsResponse(DataProducts, q)
    /\ UNCHANGED <<runVars, crawlVars, helperVars, clock, file, saving, api, data, response>>

(* the response is sent and the server is ready for the next request *)
Respond ==
    /\ request # None
    /\ request' = None
    /\ reply' = None
    /\ UNCHANGED <<runVars, crawlVars, helperVars, clock, file, saving, api, data, response>>

-----------------------------------------------------------------------------
(* The aggregation routes: /categories, /suppliers, /stats *)

Front(s) == SubSeq(s, 1, Len(s) - 1)

RECURSIVE Sum(_)
(* sum(prices) *)
Sum(prices) == IF prices = <<>> THEN 0 ELSE Sum(Front(prices)) + prices[Len(prices)]

RECURSIVE MinOf(_)
(* min(prices) of a non-empty list *)
MinOf(prices) ==
    IF Len(prices) = 1 THEN prices[1]
    ELSE LET m == MinOf(Front(prices))
         IN  IF prices[Len(prices)] < m THEN prices[Len(prices)] ELSE m

RECURSIVE MaxOf(_)
(* max(prices) of a non-empty list *)
MaxOf(prices) ==
    IF Len(prices) = 1 THEN prices[1]
    ELSE LET m == MaxOf(Front(prices))
         IN  IF prices[Len(prices)] > m THEN prices[Len(prices)] ELSE m

(* a float that is the quotient of two integers *)
Quotient(num, den) == [num |-> num, den |-> den]

(* sum(prices) / len(prices) if prices else 0 *)
AveragePrice(prices) ==
    IF prices # <<>> THEN Quotient(Sum(prices), Len(prices)) ELSE Quotient(0, 1)

(* PositivePrices that keeps the zero prices *)
PositivePrices_KeepsZeros(ps) == [i \in DOMAIN ps |-> ps[i].price.n]

(* [p.get("price", 0) for p in products if p.get("price", 0) > 0] *)
PositivePrices(ps) ==
    LET priced == SelectSeq(ps, LAMBDA p : p.price.n > 0)
    IN  [i \in DOMAIN priced |-> priced[i].price.n]

(* {"min": min(prices) if prices else 0, "max": max(prices) if prices else 0} *)
PriceRange(prices) ==
    [min |-> IF prices # <<>> THEN MinOf(prices) ELSE 0,
     max |-> IF prices # <<>> THEN MaxOf(prices) ELSE 0]

RECURSIVE GroupKeys(_, _)
(* the keys of the dict built by the loop over products: a dict keeps the  *)
(* order in which its keys were first inserted                             *)
GroupKeys(ps, field) ==
    IF ps = <<>> THEN <<>>
    ELSE LET keys == GroupKeys(Front(ps), field)
             key == ps[Len(ps)][field].s
         IN  IF \E i \in DOMAIN keys : keys[i] = key THEN keys ELSE Append(keys, key)

(* categories[cat]["products"] *)
Group(ps, field, key) == SelectSeq(ps, LAMBDA p : p[field].s = key)

(* the set of the values of a field in a list of products *)
FieldSet(ps, field) == {ps[i][field].s : i \in DOMAIN ps}

(* CategoryResponse of one category *)
CategoryResponse(ps, cat_name) ==
    LET cat_products == Group(ps, "category", cat_name)
        prices == PositivePrices(cat_products)
    IN  [name |-> cat_name,
         product_count |-> Len(cat_products),
         average_price |-> AveragePrice(prices),
         price_range |-> PriceRange(prices),
         suppliers |-> FieldSet(cat_products, "supplier")]

(* self.data.get("scraped_at", "") *)
LastUpdated == IF "scraped_at" \in DOMAIN data THEN data.scraped_at.s ELSE ""

(* SupplierResponse of one supplier *)
SupplierResponse(ps, sup_name) ==
    LET sup_products == Group(ps, "supplier", sup_name)
        prices == PositivePrices(sup_products)
    IN  [name |-> sup_name,
         product_count |-> Len(sup_products),
         categories |-> FieldSet(sup_products, "category"),
         average_price |-> AveragePrice(prices),
         last_updated |-> LastUpdated]

(* the place of x in a list sorted by product_count, largest first, when   *)
(* x goes before the entries of the same count                             *)
Rank_Unstable(sorted, x) ==
    Cardinality({i \in DOMAIN sorted : sorted[i].product_count > x.product_count})

(* the place of x in a list sorted by product_count, largest first: behind *)
(* every entry whose count is not smaller (the sort is stable)             *)
Rank(sorted, x) ==
    Cardinality({i \in DOMAIN sorted : sorted[i].product_count >= x.product_count})

RECURSIVE Sorted(_)
(* sorted(result, key=lambda x: x.product_count, reverse=True) *)
Sorted(result) ==
    IF result = <<>> THEN <<>>
    ELSE LET sorted == Sorted(Front(result))
             x == result[Len(result)]
             k == Rank(sorted, x)
         IN  SubSeq(sorted, 1, k) \o <<x>> \o SubSeq(sorted, k + 1, Len(sorted))

(* GET /categories *)
GetCategories ==
    /\ api = "up"
    /\ request = None
    /\ request' = Request("/categories", None)
    /\ LET keys == GroupKeys(DataProducts, "category")
       IN  reply' = Sorted([i \in DOMAIN keys |-> CategoryResponse(DataProducts, keys[i])])
    /\ UNCHANGED <<runVars, crawlVars, helperVars, clock, file, saving, api, data, response>>

(* GET /suppliers *)
GetSuppliers ==
    /\ api = "up"
    /\ request = None
    /\ request' = Request("/suppliers", None)
    /\ LET keys == GroupKeys(DataProducts, "supplier")
       IN  reply' = Sorted([i \in DOMAIN keys |-> SupplierResponse(DataProducts, keys[i])])
    /\ UNCHANGED <<runVars, crawlVars, helperVars, clock, file, saving, api, data, response>>

(* StatsResponse: all zeros `if not products`, else the figures of the     *)
(* whole catalog                                                           *)
StatsResponse(ps) ==
    IF ps = <<>>
    THEN [total_products |-> 0, total_suppliers |-> 0, total_categories |-> 0,
          average_price |-> Quotient(0, 1), price_range |-> [min |-> 0, max |-> 0],
          last_updated |-> LastUpdated]
    ELSE [total_products |-> Len(ps),
          total_suppliers |-> Cardinality(FieldSet(ps, "supplier")),
          total_categories |-> Cardinality(FieldSet(ps, "category")),
          average_price |-> AveragePrice(PositivePrices(ps)),
          price_range |-> PriceRange(PositivePrices(ps)),
          last_updated |-> LastUpdated]

(* GET /stats *)
GetStats ==
    /\ api = "up"
    /\ request = None
    /\ request' = Request("/stats", None)
    /\ reply' = StatsResponse(DataProducts)
    /\ UNCHANGED <<runVars, crawlVars, helperVars, clock, file, saving, api, data, response>>

-----------------------------------------------------------------------------
(* The helpers of the scraper, called one at a time *)

Call(fn, arg) == [fn |-> fn, arg |-> arg]

Statuses == {200, 201, 202, 204, 206, 301, 304, 400, 403, 404, 429, 500, 503}

Exchanges ==
    {HttpResponse(status, body) :
        status \in Statuses, body \in {"", "<html>Test content</html>"}}
    \cup {HttpError(error) : error \in {"ClientConnectorError", "TimeoutError"}}

(* result = await scraper._fetch_page(url) *)
CallFetchPage ==
    /\ call = None
    /\ \E exchange \in Exchanges :
        /\ call' = Call("_fetch_page", exchange)
        /\ ret' = FetchPage(exchange)
    /\ UNCHANGED <<runVars, crawlVars, clock, file, saving, api, data, response,
                   queryVars>>

RECURSIVE DigitStrings(_)
(* the strings of up to n digits *)
DigitStrings(n) ==
    IF n = 0 THEN {""}
    ELSE DigitStrings(n - 1) \cup {d \o ch : d \in DigitStrings(n - 1), ch \in {"0", "2", "9"}}

(* price texts as a page shows them, and texts that are no price *)
PriceTexts ==
    {lead \o whole \o sep \o decimals \o tail :
        lead \in {"", "1 ", "1.", "-", "dès "},
        whole \in DigitStrings(MaxDigits),
        sep \in {"", ",", "."},
        decimals \in DigitStrings(MaxDigits),
        tail \in {"", "€", " €", " EUR", " € TTC"}}
    \cup {"invalid", "abc", "€€€", "None", "prix sur demande"}

(* price, currency = self._parse_price(price_text) *)
CallParsePrice ==
    /\ call = None
    /\ \E price_text \in PriceTexts :
        /\ call' = Call("_parse_price", price_text)
        /\ ret' = ParsePrice(price_text)
    /\ UNCHANGED <<runVars, crawlVars, clock, file, saving, api, data, response,
                   queryVars>>

(* the words product names are made of: nouns, quantities, units *)
Words ==
    {"Vis", "Sac", "Lavabo", "Colle", "blanc", "1", "25", "2,5L", "kg", "KG", "g",
     "ml", "m2", "m²", "pièces", "lot"}

RECURSIVE Phrases(_)
(* the names of up to n words *)
Phrases(n) ==
    IF n = 0 THEN {""}
    ELSE Phrases(n - 1)
         \cup {(IF phrase = "" THEN "" ELSE phrase \o " ") \o word :
                  phrase \in Phrases(n - 1), word \in Words}

(* product names: those of test_extract_unit and the names of MaxWords words *)
ProductNames ==
    {"Carrelage 60x60 cm - lot de 5 pièces", "Peinture 2,5L blanc",
     "Lavabo en céramique - 1 kg", "Simple product name"}
    \cup Phrases(MaxWords)

(* unit = self._extract_unit(name) *)
CallExtractUnit ==
    /\ call = None
    /\ \E name \in ProductNames :
        /\ call' = Call("_extract_unit", name)
        /\ ret' = ExtractUnit(name)
    /\ UNCHANGED <<runVars, crawlVars, clock, file, saving, api, data, response,
                   queryVars>>

(* the caller goes on with the value *)
CallReturns ==
    /\ call # None
    /\ call' = None
    /\ ret' = None
    /\ UNCHANGED <<runVars, crawlVars, clock, file, saving, api, data, response,
                   queryVars>>

-----------------------------------------------------------------------------
(* Specifications *)

CrawlInit(cfg, st) ==
    /\ config = cfg
    /\ site = st
    /\ semaphore = cfg.max_concurrent_requests
    /\ run = "gather"
    /\ pc = [c \in 1 .. cfg.categories |-> "queued"]
    /\ page = [c \in 1 .. cfg.categories |-> 1]
    /\ products = [c \in 1 .. cfg.categories |-> <<>>]
    /\ content = [c \in 1 .. cfg.categories |-> -1]
    /\ attempts = [c \in 1 .. cfg.categories |-> 0]
    /\ pos = [c \in 1 .. cfg.categories |-> 0]
    /\ tried = [c \in 1 .. cfg.categories |-> None]
    /\ page_products = [c \in 1 .. cfg.categories |-> 0]
    /\ fetched = [c \in 1 .. cfg.categories |-> <<>>]
    /\ responses = [c \in 1 .. cfg.categories |-> <<>>]
    /\ stop = [c \in 1 .. cfg.categories |-> "running"]
    /\ all_products = <<>>

CatalogIdle ==
    /\ clock = 0
    /\ file = MissingFile
    /\ saving = [at |-> "idle"]
    /\ api = "down"
    /\ data = <<>>
    /\ response = NoResponse
    /\ request = None
    /\ reply = None
    /\ call = None
    /\ ret = None

Config(cap, conc, ncat) ==
    [max_products_per_category |-> cap, max_concurrent_requests |-> conc,
     categories |-> ncat]

Site(width, containers) == [width |-> width, containers |-> containers]

(* A coordinator run over several categories *)
Init ==
    /\ \E cap \in 0 .. CoordCap, conc \in 0 .. MaxConc, ncat \in 0 .. MaxCats :
          CrawlInit(Config(cap, conc, ncat),
                    Site(CoordWidth, {GoodContainer, NoNameContainer}))
    /\ CatalogIdle

Next ==
    \/ \E c \in Cats : Acquire(c)
    \/ \E c \in Cats : LoopTest(c)
    \/ \E c \in Cats : FetchFails(c)
    \/ \E c \in Cats : FetchReturns(c)
    \/ \E c \in Cats : Extract(c)
    \/ \E c \in Cats : EndPage(c)
    \/ Gather

Spec == Init /\ [][Next]_vars

(* A run over one category: every container shape under the small caps,    *)
(* and a cap beyond the page ceiling on a narrow site                      *)
CrawlSpecInit ==
    /\ \/ \E cap \in 0 .. MaxCap :
            CrawlInit(Config(cap, 1, 1), Site(MaxContainers, AllContainers))
       \/ CrawlInit(Config(BigCap, 1, 1), Site(DeepWidth, {GoodContainer}))
    /\ CatalogIdle

CrawlSpec == CrawlSpecInit /\ [][Next]_vars

(* The snapshot: a scraper whose scrape_all has returned some              *)
(* self.products, a snapshot location in any state, an API server beside   *)
SampleProducts ==
    {[name |-> "Carrelage", category |-> "carrelage", price |-> 2999,
      currency |-> "EUR", product_url |-> "/p/1", brand |-> None, unit |-> Some("m2"),
      pack_size |-> None, image_url |-> None, in_stock |-> TRUE,
      supplier |-> "Leroy Merlin", scraped_at |-> IsoFormat(0)],
     [name |-> "Lavabo", category |-> "lavabos", price |-> 0,
      currency |-> "EUR", product_url |-> "/p/2", brand |-> Some("Ideal"),
      unit |-> None, pack_size |-> None, image_url |-> Some("/i/2.jpg"),
      in_stock |-> FALSE, supplier |-> "Leroy Merlin", scraped_at |-> IsoFormat(0)]}

RECURSIVE SeqsUpTo(_, _)
SeqsUpTo(S, n) ==
    IF n = 0 THEN {<<>>}
    ELSE LET shorter == SeqsUpTo(S, n - 1)
         IN  shorter \cup {Append(q, x) : q \in shorter, x \in S}

PriorFiles ==
    {MissingFile, NotJsonFile, NotUtf8File, JsonArrayFile, JsonObjectFile(<<>>)}
    \cup {JsonObjectFile(JsonDump([scraped_at |-> PyStr(IsoFormat(0)),
                                   total_products |-> PyInt(Len(ps)),
                                   products |-> AsDictList(ps)])) :
            ps \in SeqsUpTo(SampleProducts, 1)}

CatalogInit ==
    /\ config = Config(0, 1, 0)
    /\ site = Site(0, {})
    /\ semaphore = 1
    /\ run = "done"
    /\ pc = <<>>
    /\ page = <<>>
    /\ products = <<>>
    /\ content = <<>>
    /\ attempts = <<>>
    /\ pos = <<>>
    /\ tried = <<>>
    /\ page_products = <<>>
    /\ fetched = <<>>
    /\ responses = <<>>
    /\ stop = <<>>
    /\ all_products \in SeqsUpTo(SampleProducts, MaxProducts)
    /\ clock = 0
    /\ file \in PriorFiles
    /\ saving = [at |-> "idle"]
    /\ api = "down"
    /\ data = <<>>
    /\ response = NoResponse
    /\ request = None
    /\ reply = None
    /\ call = None
    /\ ret = None

CatalogNext ==
    \/ SaveOpen
    \/ SaveWrite
    \/ ApiStart
    \/ RefreshData
    \/ Tick

CatalogSpec == CatalogInit /\ [][CatalogNext]_vars

(* The API server started on a snapshot of up to MaxCatalog products, then *)
(* answering requests                                                      *)
QueryProducts ==
    SampleProducts \cup
    {[name |-> "Peinture LAVABLE", category |-> "Carrelage", price |-> 1000,
      currency |-> "EUR", product_url |-> "/p/3", brand |-> Some("IDEAL Standard"),
      unit |-> Some("l"), pack_size |-> None, image_url |-> None, in_stock |-> TRUE,
      supplier |-> "Castorama", scraped_at |-> IsoFormat(0)]}

Snapshots ==
    {JsonObjectFile(JsonDump([scraped_at |-> PyStr(IsoFormat(0)),
                              total_products |-> PyInt(Len(ps)),
                              products |-> AsDictList(ps)])) :
        ps \in SeqsUpTo(QueryProducts, MaxCatalog)}

QueryInit ==
    /\ config = Config(0, 1, 0)
    /\ site = Site(0, {})
    /\ semaphore = 1
    /\ run = "done"
    /\ pc = <<>>
    /\ page = <<>>
    /\ products = <<>>
    /\ content = <<>>
    /\ attempts = <<>>
    /\ pos = <<>>
    /\ tried = <<>>
    /\ page_products = <<>>
    /\ fetched = <<>>
    /\ responses = <<>>
    /\ stop = <<>>
    /\ all_products = <<>>
    /\ clock = 0
    /\ file \in Snapshots \cup {MissingFile, JsonObjectFile(<<>>)}
    /\ saving = [at |-> "idle"]
    /\ api = "down"
    /\ data = <<>>
    /\ response = NoResponse
    /\ request = None
    /\ reply = None
    /\ call = None
    /\ ret = None

QueryNext ==
    \/ ApiStart
    \/ GetMaterials
    \/ Respond

QuerySpec == QueryInit /\ [][QueryNext]_vars

(* The API server started on a snapshot of up to MaxRecords products, then *)
(* reporting on it                                                         *)
AggregateProducts ==
    QueryProducts \cup
    {[name |-> "Carrelage blanc", category |-> "carrelage", price |-> 1000,
      currency |-> "EUR", product_url |-> "/p/4", brand |-> None,
      unit |-> None, pack_size |-> None, image_url |-> None, in_stock |-> TRUE,
      supplier |-> "Leroy Merlin", scraped_at |-> IsoFormat(0)],
     [name |-> "Carrelage sur devis", category |-> "carrelage", price |-> 0,
      currency |-> "EUR", product_url |-> "/p/5", brand |-> None,
      unit |-> None, pack_size |-> None, image_url |-> None, in_stock |-> TRUE,
      supplier |-> "Castorama", scraped_at |-> IsoFormat(0)]}

AggregateInit ==
    /\ config = Config(0, 1, 0)
    /\ site = Site(0, {})
    /\ semaphore = 1
    /\ run = "done"
    /\ pc = <<>>
    /\ page = <<>>
    /\ products = <<>>
    /\ content = <<>>
    /\ attempts = <<>>
    /\ pos = <<>>
    /\ tried = <<>>
    /\ page_products = <<>>
    /\ fetched = <<>>
    /\ responses = <<>>
    /\ stop = <<>>
    /\ all_products = <<>>
    /\ clock = 0
    /\ file \in {MissingFile, JsonObjectFile(<<>>)} \cup
                {JsonObjectFile(JsonDump([scraped_at |-> PyStr(IsoFormat(0)),
                                          total_products |-> PyInt(Len(ps)),
                                          products |-> AsDictList(ps)])) :
                    ps \in SeqsUpTo(AggregateProducts, MaxRecords)}
    /\ saving = [at |-> "idle"]
    /\ api = "down"
    /\ data = <<>>
    /\ response = NoResponse
    /\ request = None
    /\ reply = None
    /\ call = None
    /\ ret = None

AggregateNext ==
    \/ ApiStart
    \/ GetCategories
    \/ GetSuppliers
    \/ GetStats
    \/ Respond

AggregateSpec == AggregateInit /\ [][AggregateNext]_vars

(* main: a run over several categories of up to RunCap products each,     *)
(* then save_data, on a snapshot location in any state                     *)
RunInit ==
    /\ \E conc \in 1 .. MaxConc, ncat \in 0 .. MaxCats :
          CrawlInit(Config(RunCap, conc, ncat),
                    Site(CoordWidth, {GoodContainer}))
    /\ clock = 0
    /\ file \in {f \in PriorFiles : f.kind \in {"missing", "json_object"}}
    /\ saving = [at |-> "idle"]
    /\ api = "down"
    /\ data = <<>>
    /\ response = NoResponse
    /\ request = None
    /\ reply = None
    /\ call = None
    /\ ret = None

RunNext ==
    \/ \E c \in Cats : Acquire(c)
    \/ \E c \in Cats : LoopTest(c)
    \/ \E c \in Cats : FetchFails(c)
    \/ \E c \in Cats : FetchReturns(c)
    \/ \E c \in Cats : Extract(c)
    \/ \E c \in Cats : EndPage(c)
    \/ Gather
    \/ SaveOpen
    \/ SaveWrite

RunSpec == RunInit /\ [][RunNext]_vars

(* A scraper whose helpers are called on every input of the bounds *)
HelperInit ==
    /\ CrawlInit(Config(0, 1, 0), Site(0, {}))
    /\ CatalogIdle

HelperNext ==
    \/ CallFetchPage
    \/ CallParsePrice
    \/ CallExtractUnit
    \/ CallReturns

HelperSpec == HelperInit /\ [][HelperNext]_vars

FairSpec == Spec /\ WF_vars(Next)

CrawlFairSpec == CrawlSpec /\ WF_vars(Next)

-----------------------------------------------------------------------------
(* Vocabulary of the properties *)

Active == {c \in Cats : pc[c] \in {"loop", "fetching", "extracting"}}

Last(s) == s[Len(s)]

Range(s) == {s[i] : i \in DOMAIN s}

IsPrefix(s, t) == Len(s) <= Len(t) /\ \A i \in DOMAIN s : s[i] = t[i]

(* the records collected before the current page was fetched *)
CollectedBefore(c) == Len(products[c]) - page_products[c]

-----------------------------------------------------------------------------
(* C1: in every state of a coordinator run at most max_concurrent_requests *)
(* crawls have started and not finished, the semaphore counts the free     *)
(* permits, and a crawl that has not acquired a permit has issued no       *)
(* fetch.                                                                  *)
C1_ConcurrencyCap ==
    /\ Cardinality(Active) <= config.max_concurrent_requests
    /\ semaphore = config.max_concurrent_requests - Cardinality(Active)
    /\ \A c \in Cats : pc[c] = "queued" => fetched[c] = <<>> /\ responses[c] = <<>>

C1_Witness ==
    \E c, d \in Cats :
        /\ pc[c] = "fetching"
        /\ pc[d] = "queued"
        /\ Cardinality(Active) = config.max_concurrent_requests

C2_PagesInOrder == \A c \in Cats : \A i \in DOMAIN fetched[c] : fetched[c][i] = i

C2_RequestAfterExtraction ==
    \A c \in Cats :
        fetched'[c] # fetched[c] =>
            /\ fetched'[c] = Append(fetched[c], Len(fetched[c]) + 1)
            /\ Len(responses[c]) = Len(fetched[c])
            /\ pos[c] = attempts[c]

(* C2: the pages of a crawl are requested as 1, 2, 3, ... without gap or   *)
(* repetition, and a request is issued only when the previous request has  *)
(* returned and every attempted container of its page has been extracted.  *)
C2_SequentialPagination == []C2_PagesInOrder /\ [][C2_RequestAfterExtraction]_vars

C2_Witness ==
    \E c \in Cats : fetched[c] = <<1, 2, 3>> /\ attempts[c] = 2 /\ pc[c] = "fetching"

(* C3 as stated: a finished crawl all of whose fetches succeeded with no   *)
(* container has issued exactly one fetch and holds no record.             *)
C3_Original ==
    \A c \in Cats :
        (pc[c] = "done" /\ \A i \in DOMAIN responses[c] : responses[c][i] = 0) =>
            Len(fetched[c]) = 1 /\ products[c] = <<>>

(* C3 amended: the same when max_products_per_category is at least 1; with *)
(* a cap of 0 the crawl issues no fetch at all.                            *)
C3_EmptyPageStops ==
    \A c \in Cats :
        (pc[c] = "done" /\ \A i \in DOMAIN responses[c] : responses[c][i] = 0) =>
            /\ products[c] = <<>>
            /\ Len(fetched[c]) = IF max_products >= 1 THEN 1 ELSE 0

C3_Witness ==
    \E c \in Cats : pc[c] = "done" /\ responses[c] = <<0>> /\ max_products >= 1

C4_AtMostTenFetches == \A c \in Cats : Len(fetched[c]) <= 10

(* C4: whatever the cap, a crawl issues at most 10 page fetches, and when  *)
(* every fetch returns it reaches done.                                    *)
C4_PageCeiling ==
    []C4_AtMostTenFetches /\ <>(\A c \in Cats : pc[c] = "done")

C4_Witness ==
    \E c \in Cats :
        /\ pc[c] = "done"
        /\ stop[c] = "ceiling"
        /\ Len(fetched[c]) = 10
        /\ Len(products[c]) < max_products

C6_FailureKeepsRecords ==
    \A c \in Cats :
        -1 \in Range(responses[c]) =>
            /\ pc[c] = "done"
            /\ Last(responses[c]) = -1
            /\ Len(fetched[c]) = Len(responses[c])
            /\ \A i \in DOMAIN products[c] :
                  \E p \in 1 .. Len(fetched[c]) - 1, k \in 1 .. site.width :
                      products[c][i].product_url = Href(c, p, k)

C6_FailureStep ==
    \A c \in Cats :
        (responses'[c] # responses[c] /\ Last(responses'[c]) = -1) =>
            pc'[c] = "done" /\ products'[c] = products[c]

C6_RecordsKept == \A c \in Cats : IsPrefix(products[c], products'[c])

(* C6: a failed fetch of page n ends the crawl: no fetch follows it, and   *)
(* the crawl returns the records of pages 1..n-1, none of them dropped or  *)
(* changed.                                                                *)
C6_FetchFailureStops ==
    /\ []C6_FailureKeepsRecords
    /\ [][C6_FailureStep]_vars
    /\ [][C6_RecordsKept]_vars

C6_Witness ==
    \E c \in Cats :
        /\ pc[c] = "done"
        /\ Len(responses[c]) = 2
        /\ Last(responses[c]) = -1
        /\ products[c] # <<>>

StopIsOwn(c) ==
    /\ pc[c] = "done"
    /\ CASE stop[c] = "cap" -> Len(products[c]) >= max_products
         [] stop[c] = "fetch_failure" -> Last(responses[c]) = -1
         [] stop[c] = "no_containers" -> Last(responses[c]) = 0
         [] stop[c] = "no_records" -> Last(responses[c]) > 0 /\ page_products[c] = 0
         [] stop[c] = "ceiling" -> page[c] > PageCeiling
         [] OTHER -> FALSE

C7_Merged ==
    run = "done" =>
        /\ \A c \in Cats : StopIsOwn(c)
        /\ \A c \in Cats : Range(products[c]) \subseteq Range(all_products)

C7_Independent ==
    \A c, d \in Cats :
        (c # d /\ pc'[c] # pc[c]) =>
            /\ pc'[d] = pc[d]
            /\ products'[d] = products[d]
            /\ fetched'[d] = fetched[d]
            /\ stop'[d] = stop[d]

(* C7: a step of one crawl, its early stop included, changes no other      *)
(* crawl, and when the run completes every crawl has stopped for a reason  *)
(* of its own and all its records are in the merged result.                *)
C7_SiblingsUnaffected == []C7_Merged /\ [][C7_Independent]_vars

C7_Witness ==
    /\ run = "done"
    /\ \E c, d \in Cats :
        /\ c < d
        /\ stop[c] = "fetch_failure"
        /\ stop[d] = "cap"
        /\ products[d] # <<>>

(* C8 as stated: under fair scheduling every coordinator run completes,    *)
(* whatever max_concurrent_requests is.                                    *)
C8_Original == <>(run = "done")

(* C8 amended: under fair scheduling a coordinator run with                *)
(* max_concurrent_requests >= 1, or with no category, completes: every     *)
(* crawl finishes and all permits are back.                                *)
C8_RunCompletes ==
    (config.max_concurrent_requests >= 1 \/ config.categories = 0) ~>
        (/\ run = "done"
         /\ \A c \in Cats : pc[c] = "done"
         /\ semaphore = config.max_concurrent_requests)

C8_Witness ==
    /\ run = "done"
    /\ config.categories > config.max_concurrent_requests
    /\ config.max_concurrent_requests >= 1
    /\ semaphore = config.max_concurrent_requests

(* C9: _load_data never fails, and a missing or malformed snapshot gives   *)
(* the empty catalog with total_products 0 and a fresh timestamp, which    *)
(* replaces what was in memory.                                            *)
C9_LoadNeverFails ==
    response.status # "none" =>
        /\ response.status = "returned"
        /\ response.read \in {"missing", "not_json", "not_utf8", "json_array"} =>
              /\ data.products = <<>>
              /\ data.total_products = PyInt(0)
              /\ data.scraped_at = PyStr(response.at)

(* C10: a load that follows a completed save_data gives the products of    *)
(* self.products, field for field and in order, with total_products their  *)
(* number, whatever the location held before.                              *)
C10_SaveLoadRoundTrip ==
    (response.status # "none" /\ response.saving = "saved") =>
        /\ response.status = "returned"
        /\ response.read = "json_object"
        /\ data.products = AsDictList(all_products)
        /\ data.total_products = PyInt(Len(all_products))

C10_Witness ==
    /\ response.status = "returned"
    /\ response.saving = "saved"
    /\ Len(all_products) = 2
    /\ all_products[1] # all_products[2]
    /\ data.products = AsDictList(all_products)
    /\ api = "up"

C11_ReloadStep ==
    (api = "up" /\ (response' # response \/ data' # data)) => saving.at # "writing"

(* C11: no refresh of a running server reads the snapshot location, or     *)
(* replaces the catalog in memory, between the open and the end of the     *)
(* write of a save_data.                                                   *)
C11_MutualExclusion == [][C11_ReloadStep]_vars

-----------------------------------------------------------------------------
(* Vocabulary of the query properties: text compared letter by letter *)

SameLetter(x, y) ==
    \/ x = y
    \/ x \in DOMAIN ToLower /\ ToLower[x] = y
    \/ y \in DOMAIN ToLower /\ ToLower[y] = x

EqualIgnoringCase(a, b) ==
    /\ Len(a) = Len(b)
    /\ \A i \in 1 .. Len(a) : SameLetter(SubSeq(a, i, i), SubSeq(b, i, i))

ContainsIgnoringCase(hay, needle) ==
    \E i \in 0 .. Len(hay) - Len(needle) :
        EqualIgnoringCase(SubSeq(hay, i + 1, i + Len(needle)), needle)

(* p satisfies every predicate of q that Given accepts as supplied *)
Satisfies(p, q, Given(_)) ==
    /\ Given(q.category) => EqualIgnoringCase(p.category.s, q.category[1])
    /\ Given(q.supplier) => ContainsIgnoringCase(p.supplier.s, q.supplier[1])
    /\ Given(q.brand) =>
          /\ p.brand.t = "str" \/ q.brand[1] = ""
          /\ p.brand.t = "str" => ContainsIgnoringCase(p.brand.s, q.brand[1])
    /\ Given(q.search) => ContainsIgnoringCase(p.name.s, q.search[1])
    /\ q.min_price # None => q.min_price[1] <= p.price.n
    /\ q.max_price # None => p.price.n <= q.max_price[1]
    /\ q.in_stock # None => p.in_stock.b = q.in_stock[1]

Present(o) == o # None

NonEmpty(o) == o # None /\ o[1] # ""

(* the records that satisfy q, in catalog order *)
Matching(ps, q, Given(_)) == SelectSeq(ps, LAMBDA p : Satisfies(p, q, Given))

OnMaterials == request # None /\ request.route = "/materials"

(* C12 as stated: the filtered set of GET /materials is the subsequence of *)
(* the catalog whose records satisfy every supplied predicate, a text      *)
(* predicate supplied as the empty string included.                        *)
C12_Original ==
    OnMaterials =>
        /\ FilterProducts(DataProducts, request.query)
             = Matching(DataProducts, request.query, Present)
        /\ reply.total = Len(Matching(DataProducts, request.query, Present))

(* C12 amended: the filtered set of GET /materials is the subsequence, in  *)
(* catalog order, of the records that satisfy at once every supplied       *)
(* predicate, where a text filter given as the empty string counts as not  *)
(* supplied; total is its length.                                          *)
C12_FilteredSet ==
    OnMaterials =>
        /\ FilterProducts(DataProducts, request.query)
             = Matching(DataProducts, request.query, NonEmpty)
        /\ reply.total = Len(Matching(DataProducts, request.query, NonEmpty))

C12_Witness ==
    /\ OnMaterials
    /\ Len(DataProducts) = 2
    /\ reply.total = 1
    /\ request.query.category = Some("CARRELAGE")
    /\ request.query.max_price = Some(1000)
    /\ request.query.search = Some("LAV")
    /\ request.query.in_stock = Some(TRUE)

(* the least n with n * s >= t *)
Ceiling(t, s) == CHOOSE n \in 0 .. t : n * s >= t /\ (n > 0 => (n - 1) * s < t)

RECURSIVE PagesUpTo(_, _, _)
(* the products of pages 1..n of the query q, one after the other *)
PagesUpTo(ps, q, n) ==
    IF n = 0 THEN <<>>
    ELSE PagesUpTo(ps, q, n - 1) \o MaterialsResponse(ps, [q EXCEPT !.page = n]).products

(* C13: with T the size of the filtered set, GET /materials returns        *)
(* total = T, total_pages = ceil(T / per_page), and as products the        *)
(* filtered records at positions (page-1)*per_page+1 .. min(page*per_page, *)
(* T); a page past total_pages is empty with the same total and            *)
(* total_pages, and pages 1..total_pages one after the other are the       *)
(* filtered set.                                                           *)
C13_Pagination ==
    OnMaterials =>
        LET q == request.query
            filtered == FilterProducts(DataProducts, q)
            T == Len(filtered)
            first == (q.page - 1) * q.per_page + 1
            last == Min(q.page * q.per_page, T)
        IN  /\ reply.total = T
            /\ reply.total_pages = Ceiling(T, q.per_page)
            /\ Len(reply.products) = IF last >= first THEN last - first + 1 ELSE 0
            /\ \A i \in DOMAIN reply.products : reply.products[i] = filtered[first + i - 1]
            /\ q.page > reply.total_pages => reply.products = <<>>
            /\ PagesUpTo(DataProducts, q, reply.total_pages) = filtered

C13_Witness ==
    /\ OnMaterials
    /\ request.query.page = 2
    /\ request.query.per_page = 1
    /\ reply.total = 2
    /\ reply.total_pages = 2
    /\ reply.products = <<DataProducts[2]>>
    /\ DataProducts[1] # DataProducts[2]

TextKeys == {"category", "supplier", "brand", "search"}

OtherKeys == {"min_price", "max_price", "in_stock"}

(* filters_applied holds exactly the supplied parameters (for a text       *)
(* parameter: what Given accepts as supplied), each with the value of the  *)
(* request                                                                 *)
Echoes(applied, q, Given(_)) ==
    /\ DOMAIN applied = {k \in TextKeys : Given(q[k])} \cup {k \in OtherKeys : q[k] # None}
    /\ \A k \in DOMAIN applied :
          \/ applied[k].t = "str" /\ applied[k].s = q[k][1]
          \/ applied[k].t = "float" /\ applied[k].n = q[k][1]
          \/ applied[k].t = "bool" /\ applied[k].b = q[k][1]

EmptyResult ==
    /\ reply.total = 0
    /\ reply.products = <<>>
    /\ reply.total_pages = 0
    /\ reply.page = request.query.page
    /\ reply.per_page = request.query.per_page

(* C14 as stated: when no record satisfies the supplied filters, a text    *)
(* filter supplied as the empty string included, GET /materials returns    *)
(* total 0, no products, total_pages 0 and echoes every supplied filter.   *)
C14_Original ==
    (OnMaterials /\ Matching(DataProducts, request.query, Present) = <<>>) =>
        /\ EmptyResult
        /\ Echoes(reply.filters_applied, request.query, Present)

(* C14 amended: the same, where a text filter given as the empty string    *)
(* counts as not supplied: it selects nothing and is not echoed.           *)
C14_EmptyFilterResult ==
    (OnMaterials /\ Matching(DataProducts, request.query, NonEmpty) = <<>>) =>
        /\ EmptyResult
        /\ Echoes(reply.filters_applied, request.query, NonEmpty)

C14_Witness ==
    /\ OnMaterials
    /\ Len(DataProducts) = 2
    /\ request.query.category = Some("plomberie")
    /\ request.query.min_price = Some(0)
    /\ request.query.in_stock = Some(FALSE)
    /\ request.query.page = 2
    /\ reply.total = 0
    /\ DOMAIN reply.filters_applied = {"category", "min_price", "in_stock"}

-----------------------------------------------------------------------------
(* Vocabulary of the aggregation properties *)

OnRoute(route) == request # None /\ request.route = route

(* the positions of the catalog whose field has the value key *)
Members(field, key) == {i \in DOMAIN DataProducts : DataProducts[i][field].s = key}

Priced(members) == {i \in members : DataProducts[i].price.n > 0}

RECURSIVE PriceSum(_)
PriceSum(members) ==
    IF members = {} THEN 0
    ELSE LET i == CHOOSE j \in members : TRUE
         IN  DataProducts[i].price.n + PriceSum(members \ {i})

(* average is the mean price of the priced members, 0 when there is none *)
AverageOver(average, members) ==
    /\ average.den > 0
    /\ IF Priced(members) = {}
       THEN average.num = 0
       ELSE average.num * Cardinality(Priced(members))
              = PriceSum(Priced(members)) * average.den

(* range holds the least and the largest price of the priced members, 0    *)
(* and 0 when there is none                                                *)
RangeOver(range, members) ==
    IF Priced(members) = {}
    THEN range.min = 0 /\ range.max = 0
    ELSE /\ \E i \in Priced(members) : DataProducts[i].price.n = range.min
         /\ \E i \in Priced(members) : DataProducts[i].price.n = range.max
         /\ \A i \in Priced(members) :
               range.min <= DataProducts[i].price.n /\ DataProducts[i].price.n <= range.max

FirstSeen(field, key) ==
    CHOOSE i \in Members(field, key) : \A j \in Members(field, key) : i <= j

(* the list has one entry for each value of the field, the larger          *)
(* product_count first, and of two entries with the same product_count     *)
(* first the one whose first record comes first in the catalog             *)
OrderedByCount(list, field) ==
    /\ {list[k].name : k \in DOMAIN list} = FieldSet(DataProducts, field)
    /\ \A k, m \in DOMAIN list :
          k < m =>
              /\ list[k].name # list[m].name
              /\ list[k].product_count >= list[m].product_count
              /\ list[k].product_count = list[m].product_count =>
                    FirstSeen(field, list[k].name) < FirstSeen(field, list[m].name)

(* C16: /categories and /suppliers return one entry per distinct key,      *)
(* ordered by product_count descending, entries of equal product_count in  *)
(* the order in which their first records occur in the catalog.            *)
C16_OrderedByCount ==
    /\ OnRoute("/categories") => OrderedByCount(reply, "category")
    /\ OnRoute("/suppliers") => OrderedByCount(reply, "supplier")

C16_Witness ==
    /\ OnRoute("/categories")
    /\ Len(reply) = 2
    /\ reply[1].product_count = 2
    /\ reply[2].product_count = 1
    /\ FirstSeen("category", reply[2].name) = 1

(* C17: every record that a crawl holds, and every record of the merged    *)
(* result, has a non-empty name.                                           *)
C17_NameNonEmpty ==
    /\ \A c \in Cats : \A i \in DOMAIN products[c] : products[c][i].name # ""
    /\ \A i \in DOMAIN all_products : all_products[i].name # ""

-----------------------------------------------------------------------------
Called(fn) == call # None /\ call.fn = fn

(* C18: _fetch_page returns the body for every exchange that ends with a   *)
(* 2xx status, and None for every other status and for every error.        *)
C18_FetchClassification ==
    Called("_fetch_page") =>
        IF call.arg.kind = "response" /\ call.arg.status \in 200 .. 299
        THEN ret = Some(call.arg.body)
        ELSE ret = None

HasDigit(t) == \E i \in 1 .. Len(t) : SubSeq(t, i, i) \in DOMAIN DigitOf

IsDigits(t) == t # "" /\ \A i \in 1 .. Len(t) : SubSeq(t, i, i) \in DOMAIN DigitOf

(* groups of digits with one space between two groups, as in 1 299 *)
IsDigitGroups(t) ==
    /\ IsDigits(SubSeq(t, 1, 1))
    /\ IsDigits(SubSeq(t, Len(t), Len(t)))
    /\ \A i \in 1 .. Len(t) :
          \/ SubSeq(t, i, i) \in DOMAIN DigitOf
          \/ SubSeq(t, i, i) = " " /\ IsDigits(SubSeq(t, i - 1, i - 1) \o SubSeq(t, i + 1, i + 1))

RECURSIVE Reading(_, _)
(* the number read so far, then the digits of t from left to right, spaces *)
(* skipped                                                                 *)
Reading(sofar, t) ==
    IF t = "" THEN sofar
    ELSE IF Head(t) = " " THEN Reading(sofar, Tail(t))
    ELSE Reading(sofar * 10 + DigitOf[Head(t)], Tail(t))

(* t is <digits>[,.]<digits> and then the euro sign with or without a      *)
(* space, or EUR; the separator is at i and the last decimal at j          *)
IsPriceForm(t, i, j) ==
    /\ 1 < i /\ i < j
    /\ IsDigitGroups(SubSeq(t, 1, i - 1))
    /\ SubSeq(t, i, i) \in {",", "."}
    /\ IsDigits(SubSeq(t, i + 1, j))
    /\ SubSeq(t, j + 1, Len(t)) \in {"€", " €", " EUR"}

(* C19: _parse_price returns for every text a price >= 0 with currency     *)
(* EUR; for a text without any digit, the empty text included, the price   *)
(* is 0; for <digits>[,.]<digits> followed by the euro sign, with or       *)
(* without a space and with digit groups separated by a space, it is the   *)
(* number written, the comma read as the decimal separator.                *)
C19_PriceParsing ==
    Called("_parse_price") =>
        LET t == call.arg
        IN  /\ ret.currency = "EUR"
            /\ ret.price.units >= 0
            /\ ~HasDigit(t) => ret.price = Float(0, 0)
            /\ \A i, j \in 1 .. Len(t) :
                  IsPriceForm(t, i, j) =>
                      ret.price = Float(Reading(Reading(0, SubSeq(t, 1, i - 1)),
                                                SubSeq(t, i + 1, j)),
                                        j - i)

C19_Witness ==
    /\ Called("_parse_price")
    /\ call.arg = "1 29,90 €"
    /\ ret = [price |-> [units |-> 1299, decimals |-> 1], currency |-> "EUR"]

Letters == {SubSeq(LowerCase, i, i) : i \in 1 .. Len(LowerCase)}

(* the name states the token: it stands in the name, in either case, as a  *)
(* word of its own, after a quantity or in the plural, and not inside      *)
(* another word                                                            *)
States(name, token) ==
    LET t == Lower(name)
        u == Lower(token)
        at(k) == IF k \in 1 .. Len(t) THEN SubSeq(t, k, k) ELSE " "
    IN  \E i \in 0 .. Len(t) - Len(u) :
            /\ SubSeq(t, i + 1, i + Len(u)) = u
            /\ at(i) \notin Letters
            /\ \/ at(i + Len(u) + 1) \notin Letters
               \/ at(i + Len(u) + 1) = "s" /\ at(i + Len(u) + 2) \notin Letters

(* C20: _extract_unit returns the unit the name states, in either case:    *)
(* "kg" for "Lavabo en céramique - 1 kg", "l" for "Peinture 2,5L blanc",   *)
(* "pièce" for "Carrelage 60x60 cm - lot de 5 pièces", none for "Simple    *)
(* product name"; a unit is returned only when the name states it, never   *)
(* for letters that occur only inside other words.                         *)
C20_UnitExtraction ==
    Called("_extract_unit") =>
        /\ call.arg = "Lavabo en céramique - 1 kg" => ret = Some("kg")
        /\ call.arg = "Peinture 2,5L blanc" => ret = Some("l")
        /\ call.arg = "Carrelage 60x60 cm - lot de 5 pièces" => ret = Some("pièce")
        /\ call.arg = "Simple product name" => ret = None
        /\ ret # None => States(call.arg, ret[1])

(* the page just fetched held containers, every attempted one has been     *)
(* handed to extraction, and none gave a record                            *)
PageWithoutRecords(c) ==
    /\ responses[c] # <<>>
    /\ Last(responses[c]) >= 1
    /\ Len(responses[c]) = Len(fetched[c])
    /\ attempts[c] >= 1
    /\ pos[c] = attempts[c]
    /\ page_products[c] = 0

C21_StopStep ==
    \A c \in Cats :
        PageWithoutRecords(c) =>
            /\ pc'[c] \in {pc[c], "done"}
            /\ fetched'[c] = fetched[c]
            /\ products'[c] = products[c]

C21_Returned ==
    \A c \in Cats :
        (PageWithoutRecords(c) /\ pc[c] = "done") =>
            /\ stop[c] = "no_records"
            /\ Len(fetched[c]) = page[c]
            /\ run = "done" => all_products = Flatten(products, config.categories)

(* C21: when a successfully fetched page holds at least one container and  *)
(* extraction gives a record for none of the attempted containers, the     *)
(* crawl ends there: it issues no further fetch and returns the records    *)
(* of the earlier pages unchanged.                                         *)
C21_NoRecordsStops == []C21_Returned /\ [][C21_StopStep]_vars

C21_Witness ==
    \E c \in Cats :
        /\ PageWithoutRecords(c)
        /\ pc[c] = "done"
        /\ Len(fetched[c]) = 2
        /\ Len(products[c]) >= 1

(* extraction of the container fails: the name element or the link is      *)
(* missing, or something raises                                            *)
Fails(container) == ~container.name_elem \/ ~container.url_elem \/ container.raises

(* the crawl hands a container to extraction in this step *)
Extracts(c) == pc[c] = "extracting" /\ pos'[c] # pos[c]

C22_FailureIsLocal ==
    \A c \in Cats :
        (Extracts(c) /\ Fails(tried'[c][1])) =>
            /\ products'[c] = products[c]
            /\ page_products'[c] = page_products[c]
            /\ pos'[c] = pos[c] + 1
            /\ attempts'[c] = attempts[c]
            /\ pc'[c] = "extracting"
            /\ stop'[c] = "running"
            /\ fetched'[c] = fetched[c]

C22_PageGoesOn ==
    \A c \in Cats :
        (pc[c] = "extracting" /\ pos[c] < attempts[c]) =>
            /\ pc'[c] = "extracting"
            /\ pos'[c] \in {pos[c], pos[c] + 1}
            /\ ENABLED Extract(c)

(* C22: a container whose extraction fails (no name element, no link, or   *)
(* an exception) gives None and no record: the records collected so far    *)
(* are unchanged, the page is not left, and the loop goes on to every      *)
(* later attempted container before the page ends.                         *)
C22_ExtractionFailureLocal == [][C22_FailureIsLocal]_vars /\ [][C22_PageGoesOn]_vars

C22_Witness ==
    \E c \in Cats :
        /\ pc[c] = "extracting"
        /\ tried[c] = Some(RaisingContainer)
        /\ pos[c] = 1
        /\ attempts[c] = 2
        /\ page_products[c] = 0
        /\ products[c] # <<>>

(* the records of the snapshot file as json.load reads them *)
Catalog ==
    IF file.kind = "json_object" /\ "products" \in DOMAIN file.doc
    THEN JsonLoad(file.doc).products
    ELSE <<>>

(* the records of the catalog that carry the category of crawl c *)
OfCategory(c) == SelectSeq(Catalog, LAMBDA r : r.category = PyStr(CategoryKey(c)))

RECURSIVE Collected(_)
(* the number of records of the crawls 1 .. n *)
Collected(n) == IF n = 0 THEN 0 ELSE Collected(n - 1) + Len(products[n])

C23_WriteStep ==
    file' # file =>
        /\ run = "done"
        /\ \A c \in Cats : pc[c] = "done" /\ products'[c] = products[c]

C23_Written ==
    saving.at = "saved" =>
        /\ file.kind = "json_object"
        /\ \A c \in Cats : OfCategory(c) = AsDictList(products[c])
        /\ Len(Catalog) = Collected(config.categories)
        /\ \A i, j \in DOMAIN Catalog : Catalog[i] = Catalog[j] => i = j

(* C23: the snapshot file is touched only when every crawl of the run has  *)
(* returned, and once written its records are those of the crawls of the   *)
(* run and no others: the records of each category are that crawl's        *)
(* records in extraction order, none lost, none twice, and nothing of the  *)
(* snapshot that was there before.                                         *)
C23_CatalogAfterJoin == []C23_Written /\ [][C23_WriteStep]_vars

C23_Witness ==
    /\ saving.at = "saved"
    /\ config.categories = 2
    /\ config.max_concurrent_requests = 2
    /\ Len(products[1]) = 2
    /\ Len(products[2]) = 1
    /\ Len(Catalog) = 3
    /\ stop[2] = "fetch_failure"

=============================================================================
